---------------------------- MODULE Spec2Model ----------------------------
(***************************************************************************)
(* Model of the Atmos Energy data-refresh coordinator                      *)
(* (custom_components/atmos/sensor.py).                                    *)
(*                                                                         *)
(* Text is modelled as a sequence of one-character strings, so that        *)
(* str.strip, str.replace and float() are computed character by character. *)
(* Floats are modelled as integers counting tenths (12.5 is 125); the      *)
(* sample cells carry at most one fractional digit, so the sums are exact. *)
(***************************************************************************)
EXTENDS Integers, Sequences, FiniteSets, TLC

VARIABLES
    data,                 \* coordinator.data: <<>> for None, <<row>> for a dict
    current_daily_usage,  \* coordinator.current_daily_usage, in tenths
    cumulative_usage,     \* coordinator.cumulative_usage, in tenths
    trace,                \* history of the calls made on the coordinator
    pc,                   \* position in the platform setup sequence
    now,                  \* dt_util.now(), local wall-clock time
    next_time,            \* <<>> or <<t>>: the last result of _get_next_4am
    _unsub_timer,         \* coordinator._unsub_timer: <<>> for None, <<handle>>
    armed,                \* the callbacks the host's event loop holds armed
    handles,              \* number of handles the host has issued
    inflight,             \* refreshes suspended on the await of their fetch
    accounts,             \* hass.data[DOMAIN]: the coordinators, in entry order
    refreshed             \* accounts whose refresh the last fetch_now called

\* The host's timers, the suspended calls and the other accounts.
host == <<_unsub_timer, armed, handles, inflight, accounts, refreshed>>

vars == <<data, current_daily_usage, cumulative_usage, trace, pc, now, next_time,
          _unsub_timer, armed, handles, inflight, accounts, refreshed>>

\* No timer armed, no call suspended, no other account.
HostIdle ==
    /\ _unsub_timer = <<>>
    /\ armed = {}
    /\ handles = 0
    /\ inflight = <<>>
    /\ accounts = <<>>
    /\ refreshed = {}

-----------------------------------------------------------------------------
(* Bounds *)

\* Number of calls (refreshes, restorations) made on one coordinator.
MaxCalls == 3

\* Number of calendar days the clock of the scheduling model ranges over.
MaxDay == 2

\* Number of handles the host has issued up to which the daily timer is
\* still scheduled.
MaxHandles == 3

\* Number of refreshes begun with the coordinator's timer running.
MaxStarts == 2

\* Number of time-change listeners the host holds for the entry.
MaxListeners == 4

\* Number of configured accounts.
MaxAccounts == 2

\* Number of invocations of the fetch_now service.
MaxServiceCalls == 2

-----------------------------------------------------------------------------
(* Python text primitives *)

\* Python's None where a text value is expected (csv.DictReader's restval).
NoneCell == <<"<None>">>

IsSpace(c) == c \in {" ", "\t", "\n"}

IsDigit(c) == c \in {"0", "1", "2", "3", "4", "5", "6", "7", "8", "9"}

DigitVal(c) ==
    CASE c = "0" -> 0 [] c = "1" -> 1 [] c = "2" -> 2 [] c = "3" -> 3
      [] c = "4" -> 4 [] c = "5" -> 5 [] c = "6" -> 6 [] c = "7" -> 7
      [] c = "8" -> 8 [] c = "9" -> 9

RECURSIVE LStrip(_)
LStrip(s) == IF s # <<>> /\ IsSpace(Head(s)) THEN LStrip(Tail(s)) ELSE s

RECURSIVE RStrip(_)
RStrip(s) ==
    IF s # <<>> /\ IsSpace(s[Len(s)]) THEN RStrip(SubSeq(s, 1, Len(s) - 1)) ELSE s

\* str.strip()
Strip(s) == RStrip(LStrip(s))

\* Faulty variant of RemoveCommas: the comma is read as a decimal point.
CommaToPoint(s) == [i \in 1..Len(s) |-> IF s[i] = "," THEN "." ELSE s[i]]

\* str.replace(",", "")
RemoveCommas(s) == SelectSeq(s, LAMBDA c : c # ",")

\* The value of a run of decimal digits.
RECURSIVE DigitsVal(_)
DigitsVal(s) ==
    IF s = <<>> THEN 0 ELSE DigitsVal(SubSeq(s, 1, Len(s) - 1)) * 10 + DigitVal(s[Len(s)])

AllDigits(s) == \A i \in 1..Len(s) : IsDigit(s[i])

\* Position of the first "." of s, or 0.
DotPos(s) ==
    IF \E i \in 1..Len(s) : s[i] = "."
    THEN CHOOSE i \in 1..Len(s) : s[i] = "." /\ \A j \in 1..(i - 1) : s[j] # "."
    ELSE 0

\* float(s) on an unsigned decimal literal: digits, digits.digits, digits., .digits
\* Yields [ok, val]: ok = FALSE stands for ValueError; val counts tenths.
UnsignedFloat(s) ==
    LET d    == DotPos(s)
        ip   == IF d = 0 THEN s ELSE SubSeq(s, 1, d - 1)
        fp   == IF d = 0 THEN <<>> ELSE SubSeq(s, d + 1, Len(s))
        ok   == AllDigits(ip) /\ AllDigits(fp) /\ Len(ip) + Len(fp) > 0
        frac == IF fp = <<>> THEN 0 ELSE DigitVal(fp[1])
    IN  IF ok THEN [ok |-> TRUE, val |-> DigitsVal(ip) * 10 + frac]
              ELSE [ok |-> FALSE, val |-> 0]

\* float(s): surrounding whitespace is skipped, one leading sign is accepted.
PyFloat(s) ==
    LET t == Strip(s)
    IN  IF t = <<>> THEN [ok |-> FALSE, val |-> 0]
        ELSE IF Head(t) = "-"
             THEN LET r == UnsignedFloat(Tail(t))
                  IN  [ok |-> r.ok, val |-> 0 - r.val]
        ELSE IF Head(t) = "+" THEN UnsignedFloat(Tail(t))
        ELSE UnsignedFloat(t)


-----------------------------------------------------------------------------
(* Sample texts *)

DATE_1 == <<"2", "0", "2", "4", "-", "0", "1", "-", "0", "1">>

DATE_2 == <<"2", "0", "2", "4", "-", "0", "1", "-", "0", "2">>

EMPTY == <<>>

CONS_12_5 == <<"1", "2", ".", "5">>

CONS_8_0 == <<"8", ",", "0">>

CONS_3_0 == <<" ", "3", ".", "0">>

CONS_NEG == <<"-", "3", ".", "0">>

CONS_ABC == <<"a", "b", "c">>

STATE_42_5 == <<"4", "2", ".", "5">>

STATE_UNKNOWN == <<"u", "n", "k", "n", "o", "w", "n">>

-----------------------------------------------------------------------------
(* The usage document served by the portal *)

\* The column labels of the usage file.
Header ==
    <<"Weather Date", "Consumption", "Temp Area", "Units", "Avg Temp",
      "High Temp", "Low Temp", "Billing Month", "Billing Period">>

\* The same labels as a source variant writes them in lower case.
HeaderLower ==
    <<"weather date", "consumption", "temp area", "units", "avg temp",
      "high temp", "low temp", "billing month", "billing period">>

\* A full data row with the given date and consumption cells.
FullRow(date, cons) ==
    <<date, cons, <<"T", "X">>, <<"C", "C", "F">>, <<"5", "1">>, <<"6", "0">>,
      <<"4", "2">>, <<"J", "a", "n">>, <<"C", "u", "r">>>>

DocOf(date, cons) == [header |-> Header, rows |-> <<FullRow(date, cons)>>]

DocEmpty == [header |-> Header, rows |-> <<>>]

DocTwoRows ==
    [header |-> Header,
     rows   |-> <<FullRow(DATE_1, CONS_12_5), FullRow(DATE_2, CONS_3_0)>>]

\* A last row cut short after its date cell.
DocShortRow == [header |-> Header, rows |-> <<<<DATE_2>>>>]

DocLowerHeader ==
    [header |-> HeaderLower, rows |-> <<FullRow(DATE_2, CONS_12_5)>>]

Docs ==
    { DocOf(DATE_1, CONS_12_5), DocOf(DATE_2, CONS_8_0), DocOf(DATE_1, CONS_NEG),
      DocOf(DATE_2, CONS_ABC), DocOf(DATE_2, EMPTY), DocOf(EMPTY, CONS_3_0),
      DocEmpty, DocTwoRows, DocShortRow, DocLowerHeader }

\* What the portal answers to one fetch: a connection failure, or the status
\* of the three requests, whether the login answer shows a signed-in page,
\* and the document of the download.
OkResponse(doc) ==
    [connected |-> TRUE, get_status |-> 200, post_status |-> 200,
     signed_in |-> TRUE, csv_status |-> 200, doc |-> doc]

Responses ==
    { OkResponse(d) : d \in Docs }
    \cup { [OkResponse(DocEmpty) EXCEPT !.connected = FALSE],
           [OkResponse(DocEmpty) EXCEPT !.get_status = 500],
           [OkResponse(DocEmpty) EXCEPT !.post_status = 403],
           [OkResponse(DocOf(DATE_2, CONS_8_0)) EXCEPT !.csv_status = 500],
           [OkResponse(DocOf(DATE_2, CONS_8_0)) EXCEPT !.signed_in = FALSE],
           [OkResponse(DocOf(DATE_2, CONS_8_0))
               EXCEPT !.signed_in = FALSE, !.csv_status = 500] }

\* The values the host may hold as the cumulative sensor's last state.
LastStates == { <<>>, <<STATE_42_5>>, <<STATE_UNKNOWN>> }

-----------------------------------------------------------------------------
(* _fetch_data *)

\* requests.Response.raise_for_status
RaisesForStatus(status) == status >= 400 /\ status < 600

\* csv.DictReader: each row as a mapping from column label to cell; a cell the
\* row lacks is None.
DictReader(doc) ==
    [i \in 1..Len(doc.rows) |->
        [h \in {doc.header[j] : j \in 1..Len(doc.header)} |->
            LET j == CHOOSE k \in 1..Len(doc.header) : doc.header[k] = h
            IN  IF j <= Len(doc.rows[i]) THEN doc.rows[i][j] ELSE NoneCell]]

\* dict.get(key, default)
Get(d, key, default) == IF key \in DOMAIN d THEN d[key] ELSE default

\* The column label each key of the parsed row is read from.
ColumnOf ==
    [weather_date |-> "Weather Date", consumption |-> "Consumption",
     temp_area |-> "Temp Area", units |-> "Units", avg_temp |-> "Avg Temp",
     high_temp |-> "High Temp", low_temp |-> "Low Temp",
     billing_month |-> "Billing Month", billing_period |-> "Billing Period"]

\* Which row of the parsed document is the latest.
LatestIndex(rows) == Len(rows)

\* The dictionary built from the latest row, or the AttributeError of
\* None.strip() when one of its cells is None.
ParseLatest(rows) ==
    LET latest == rows[LatestIndex(rows)]
        raw    == [k \in DOMAIN ColumnOf |-> Get(latest, ColumnOf[k], EMPTY)]
    IN  IF \E k \in DOMAIN ColumnOf : raw[k] = NoneCell
        THEN [kind |-> "raise", exc |-> "AttributeError", row |-> <<>>]
        ELSE [kind |-> "row", exc |-> "",
              row |-> <<[k \in DOMAIN ColumnOf |-> Strip(raw[k])]>>]

\* Faulty variant of _fetch_data: a login answer without the signed-in
\* markers raises instead of logging a warning.
FetchDataRaisesOnNoMarker(resp) ==
    LET fail(e) == [kind |-> "raise", exc |-> e, row |-> <<>>, warned |-> FALSE]
    IN  IF ~resp.connected THEN fail("ConnectionError")
        ELSE IF RaisesForStatus(resp.get_status) THEN fail("HTTPError")
        ELSE IF RaisesForStatus(resp.post_status) THEN fail("HTTPError")
        ELSE IF ~(resp.post_status = 200 /\ resp.signed_in)
        THEN [fail("AuthenticationError") EXCEPT !.warned = TRUE]
        ELSE LET rows == DictReader(resp.doc)
             IN  IF RaisesForStatus(resp.csv_status) THEN fail("HTTPError")
                 ELSE IF Len(rows) = 0
                 THEN [kind |-> "none", exc |-> "", row |-> <<>>, warned |-> FALSE]
                 ELSE LET p == ParseLatest(rows)
                      IN  [kind |-> p.kind, exc |-> p.exc, row |-> p.row,
                           warned |-> FALSE]

\* _fetch_data: kind "raise" (an exception leaves the function), "none" (it
\* returns None) or "row" (it returns the dictionary held in row).
\* warned: the "login may have failed" warning was logged.
_fetch_data(resp) ==
    LET fail(e) == [kind |-> "raise", exc |-> e, row |-> <<>>, warned |-> FALSE]
    IN  IF ~resp.connected THEN fail("ConnectionError")
        ELSE IF RaisesForStatus(resp.get_status) THEN fail("HTTPError")
        ELSE IF RaisesForStatus(resp.post_status) THEN fail("HTTPError")
        ELSE LET warned == ~(resp.post_status = 200 /\ resp.signed_in)
                 rows   == DictReader(resp.doc)
             IN  IF RaisesForStatus(resp.csv_status)
                 THEN [fail("HTTPError") EXCEPT !.warned = warned]
                 ELSE IF Len(rows) = 0
                 THEN [kind |-> "none", exc |-> "", row |-> <<>>, warned |-> warned]
                 ELSE LET p == ParseLatest(rows)
                      IN  [kind |-> p.kind, exc |-> p.exc, row |-> p.row,
                           warned |-> warned]

-----------------------------------------------------------------------------
(* AtmosDailyCoordinator *)

\* The three usage fields of the coordinator.
State == [data |-> data, current_daily_usage |-> current_daily_usage,
          cumulative_usage |-> cumulative_usage]

\* __init__
NewCoordinator == [data |-> <<>>, current_daily_usage |-> 0, cumulative_usage |-> 0]

\* old_date: None (here <<>>) without data, else <<the stored weather_date>>.
OldDate(st) == IF st.data # <<>> THEN <<st.data[1].weather_date>> ELSE <<>>

\* Faulty variant of SameDate: any stored date makes the fetched row a duplicate.
SameDateIgnoresNew(st, new_data) ==
    LET old_date == OldDate(st)
    IN  old_date # <<>> /\ old_date[1] # EMPTY

\* "old_date and old_date == new_date": the fetched row is skipped.
SameDate(st, new_data) ==
    LET old_date == OldDate(st)
    IN  /\ old_date # <<>>
        /\ old_date[1] # EMPTY
        /\ old_date[1] = new_data.weather_date

\* The float the consumption text is converted to.
UsageFloat(new_data) ==
    LET usage_value == new_data.consumption
    IN  IF usage_value = EMPTY \/ usage_value = NoneCell THEN 0
        ELSE LET f == PyFloat(Strip(RemoveCommas(usage_value)))
             IN  IF f.ok THEN f.val ELSE 0

\* Faulty variant of Accept: the total is assigned, not added to.
AcceptOverwrites(st, new_data) ==
    LET usage_float == UsageFloat(new_data)
    IN  [data |-> <<new_data>>,
         current_daily_usage |-> usage_float,
         cumulative_usage |-> usage_float]

\* Faulty variant of Accept: a consumption of 0.0 leaves the daily usage as
\* it was.
AcceptDailyStale(st, new_data) ==
    LET usage_float == UsageFloat(new_data)
    IN  [data |-> <<new_data>>,
         current_daily_usage |->
             IF usage_float = 0 THEN st.current_daily_usage ELSE usage_float,
         cumulative_usage |-> st.cumulative_usage + usage_float]

\* The coordinator after a fetched row is accepted.
Accept(st, new_data) ==
    LET usage_float == UsageFloat(new_data)
    IN  [data |-> <<new_data>>,
         current_daily_usage |-> usage_float,
         cumulative_usage |-> st.cumulative_usage + usage_float]

\* Faulty variant of async_request_refresh: the exception is logged and swallowed.
RefreshSwallowsError(st, resp) ==
    LET new == _fetch_data(resp)
    IN  IF new.kind \in {"raise", "none"} THEN [st |-> st, outcome |-> "returned"]
        ELSE IF SameDate(st, new.row[1]) THEN [st |-> st, outcome |-> "returned"]
        ELSE [st |-> Accept(st, new.row[1]), outcome |-> "returned"]

\* Faulty variant of async_request_refresh: no check for a fetch that returned None,
\* so that new_data.get raises.
RefreshWithoutNoneCheck(st, resp) ==
    LET new == _fetch_data(resp)
    IN  IF new.kind \in {"raise", "none"} THEN [st |-> st, outcome |-> "UpdateFailed"]
        ELSE IF SameDate(st, new.row[1]) THEN [st |-> st, outcome |-> "returned"]
        ELSE [st |-> Accept(st, new.row[1]), outcome |-> "returned"]

\* async_request_refresh on coordinator st when the portal answers resp:
\* the coordinator it leaves, and how the call ends.
async_request_refresh(st, resp) ==
    LET new == _fetch_data(resp)
    IN  IF new.kind = "raise" THEN [st |-> st, outcome |-> "UpdateFailed"]
        ELSE IF new.kind = "none" THEN [st |-> st, outcome |-> "returned"]
        ELSE IF SameDate(st, new.row[1]) THEN [st |-> st, outcome |-> "returned"]
        ELSE [st |-> Accept(st, new.row[1]), outcome |-> "returned"]

\* Faulty variant of async_added_to_hass: the restored value is added to the
\* coordinator's total instead of replacing it.
RestoreAdds(st, last_state) ==
    IF last_state = <<>> THEN st
    ELSE LET old_val == PyFloat(last_state[1])
         IN  IF old_val.ok
             THEN [st EXCEPT !.cumulative_usage = st.cumulative_usage + old_val.val]
             ELSE st

\* AtmosEnergyCumulativeUsageSensor.async_added_to_hass with the host's
\* last state (<<>>: none stored).
async_added_to_hass(st, last_state) ==
    IF last_state = <<>> THEN st
    ELSE LET old_val == PyFloat(last_state[1])
         IN  IF old_val.ok THEN [st EXCEPT !.cumulative_usage = old_val.val]
             ELSE st

-----------------------------------------------------------------------------
(* The coordinator driven by its callers *)

Calls == Len(trace)

\* One entry of the history: the call, its input, the coordinator before and
\* after it, and how it ended.
Entry(op, arg, before, after, outcome) ==
    [op |-> op, arg |-> arg, before |-> before, after |-> after, outcome |-> outcome]

Init ==
    /\ data = NewCoordinator.data
    /\ current_daily_usage = NewCoordinator.current_daily_usage
    /\ cumulative_usage = NewCoordinator.cumulative_usage
    /\ trace = <<>>
    /\ pc = "coordinator"
    /\ now = [day |-> 0, hour |-> 0, minute |-> 0, second |-> 0, microsecond |-> 0]
    /\ next_time = <<>>
    /\ HostIdle

\* A caller (setup, the daily callback, the fetch_now service) awaits
\* async_request_refresh.
Refresh(resp) ==
    /\ Calls < MaxCalls
    /\ LET r == async_request_refresh(State, resp)
       IN  /\ data' = r.st.data
           /\ current_daily_usage' = r.st.current_daily_usage
           /\ cumulative_usage' = r.st.cumulative_usage
           /\ trace' = Append(trace, Entry("refresh", resp, State, r.st, r.outcome))
    /\ UNCHANGED <<pc, now, next_time>>
    /\ UNCHANGED host

\* The host adds the cumulative sensor, once, and hands it its last state.
Restore(last_state) ==
    /\ Calls < MaxCalls
    /\ \A i \in 1..Len(trace) : trace[i].op # "restore"
    /\ LET st == async_added_to_hass(State, last_state)
       IN  /\ cumulative_usage' = st.cumulative_usage
           /\ trace' = Append(trace, Entry("restore", last_state, State, st, "returned"))
    /\ UNCHANGED <<data, current_daily_usage, pc, now, next_time>>
    /\ UNCHANGED host

Next ==
    \/ \E resp \in Responses : Refresh(resp)
    \/ \E last_state \in LastStates : Restore(last_state)

Spec == Init /\ [][Next]_vars

-----------------------------------------------------------------------------
(* Properties of refresh *)

\* The last call made.
Last == trace[Len(trace)]

\* Entry e is a refresh whose fetch returned a row.
FetchedRow(e) == e.op = "refresh" /\ _fetch_data(e.arg).kind = "row"

\* The row a refresh entry fetched.
RowOf(e) == _fetch_data(e.arg).row[1]

\* C1 (as claimed): when a last accepted reading exists and a refresh fetches
\* a row with the same date, for whatever date, data, current_daily_usage and
\* cumulative_usage are left as they were.
C1_DedupeAnyDate ==
    (trace # <<>> /\ FetchedRow(Last) /\ Last.before.data # <<>>
        /\ RowOf(Last).weather_date = Last.before.data[1].weather_date)
    => State = Last.before

\* Every call so far is a refresh that fetched a row, and each row's date
\* differs from the date of the row fetched just before it.
DistinctDateRun ==
    /\ \A i \in 1..Len(trace) : FetchedRow(trace[i])
    /\ \A i \in 2..Len(trace) :
          RowOf(trace[i]).weather_date # RowOf(trace[i - 1]).weather_date

\* v1 + ... + vn over the first n fetched rows.
RECURSIVE SumOfFetched(_)
SumOfFetched(n) ==
    IF n = 0 THEN 0 ELSE SumOfFetched(n - 1) + UsageFloat(RowOf(trace[n]))

\* C2: from a fresh coordinator, after N refreshes whose rows have pairwise
\* different consecutive dates, cumulative_usage is v1 + ... + vN and
\* current_daily_usage is vN.
C2_SumOfDistinctDates ==
    (trace # <<>> /\ DistinctDateRun)
    => /\ cumulative_usage = SumOfFetched(Len(trace))
       /\ current_daily_usage = UsageFloat(RowOf(Last))
       /\ Last.outcome = "returned"

\* Three refreshes with changing dates have been added up.
C2_Witness ==
    /\ Len(trace) = 3
    /\ DistinctDateRun
    /\ \A i \in 1..3 : UsageFloat(RowOf(trace[i])) > 0
    /\ cumulative_usage > current_daily_usage

\* C3 (as claimed): a refresh never lowers cumulative_usage, whatever
\* consumption text the fetched row carries.
C3_NeverDecreases ==
    (trace # <<>> /\ Last.op = "refresh")
    => cumulative_usage >= Last.before.cumulative_usage

\* C4: a refresh whose fetch fails ends in UpdateFailed and leaves data,
\* current_daily_usage and cumulative_usage as they were before the call.
C4_FailureAtomic ==
    (trace # <<>> /\ Last.op = "refresh" /\ _fetch_data(Last.arg).kind = "raise")
    => /\ Last.outcome = "UpdateFailed"
       /\ State = Last.before

\* The request that fails in entry e: "connect", "get", "post", "csv" or "".
FailedRequest(e) ==
    IF e.op # "refresh" THEN ""
    ELSE IF ~e.arg.connected THEN "connect"
    ELSE IF e.arg.get_status \notin 200..299 THEN "get"
    ELSE IF e.arg.post_status \notin 200..299 THEN "post"
    ELSE IF e.arg.csv_status \notin 200..299 THEN "csv"
    ELSE ""

\* After a reading was accepted, the download fails with a non-2xx status,
\* and a failure of every other kind has been seen on the same coordinator.
C4_Witness ==
    /\ Len(trace) = 3
    /\ FetchedRow(trace[1]) /\ trace[1].after.cumulative_usage > 0
    /\ FailedRequest(trace[2]) \in {"connect", "get", "post"}
    /\ FailedRequest(trace[3]) = "csv"
    /\ trace[3].outcome = "UpdateFailed"

\* Entry e is a refresh whose three requests succeed and whose document has
\* no data row.
EmptyResult(e) ==
    /\ e.op = "refresh"
    /\ FailedRequest(e) = ""
    /\ Len(e.arg.doc.rows) = 0

\* C5: a refresh whose document has no data row returns without raising and
\* leaves data, current_daily_usage and cumulative_usage unchanged.
C5_EmptyNoOp ==
    (trace # <<>> /\ EmptyResult(Last))
    => /\ Last.outcome = "returned"
       /\ State = Last.before

\* An empty result both before any reading and after one was accepted.
C5_Witness ==
    /\ Len(trace) = 3
    /\ EmptyResult(trace[1]) /\ trace[1].before.data = <<>>
    /\ FetchedRow(trace[2]) /\ trace[2].after.cumulative_usage > 0
    /\ EmptyResult(trace[3]) /\ trace[3].before.data # <<>>
    /\ trace[3].outcome = "returned"

\* The restored value, then only refreshes that fetch no row, then one
\* refresh that fetches a row.
RestoredThenOneReading ==
    /\ Len(trace) >= 2
    /\ trace[1].op = "restore"
    /\ trace[1].arg # <<>>
    /\ PyFloat(trace[1].arg[1]).ok
    /\ \A i \in 2..(Len(trace) - 1) :
          trace[i].op = "refresh" /\ ~FetchedRow(trace[i])
    /\ FetchedRow(Last)

\* C6: when cumulative_usage is seeded with S before any refresh has run, one
\* refresh accepting a reading with consumption v yields S + v.
C6_RestorationPrecedence ==
    RestoredThenOneReading
    => cumulative_usage = PyFloat(trace[1].arg[1]).val + UsageFloat(RowOf(Last))

\* 42.5 restored, then a reading of 3.0: 45.5.
C6_Witness ==
    /\ Len(trace) = 2
    /\ RestoredThenOneReading
    /\ trace[1].arg = <<STATE_42_5>>
    /\ RowOf(Last).consumption = Strip(CONS_3_0)
    /\ cumulative_usage = 455

\* The cell of the latest raw row of doc under the column label: <<>> when
\* the document has no such column or the row is too short to have the cell.
RawCell(doc, label) ==
    LET r == doc.rows[Len(doc.rows)]
    IN  IF \E j \in 1..Len(r) : j <= Len(doc.header) /\ doc.header[j] = label
        THEN <<r[CHOOSE j \in 1..Len(r) : j <= Len(doc.header) /\ doc.header[j] = label]>>
        ELSE <<>>

\* The consumption of the latest raw row is missing, empty or not a number.
ConsumptionUnusable(doc) ==
    LET c == RawCell(doc, "Consumption")
    IN  \/ c = <<>>
        \/ Strip(c[1]) = EMPTY
        \/ ~PyFloat(Strip(RemoveCommas(c[1]))).ok

\* Entry e is a refresh whose document's latest row has a date other than the
\* stored one and a consumption that is missing, empty or not a number.
NewDateUnusableConsumption(e) ==
    /\ e.op = "refresh"
    /\ FailedRequest(e) = ""
    /\ Len(e.arg.doc.rows) > 0
    /\ RawCell(e.arg.doc, "Weather Date") # <<>>
    /\ \/ e.before.data = <<>>
       \/ e.before.data[1].weather_date # Strip(RawCell(e.arg.doc, "Weather Date")[1])
    /\ ConsumptionUnusable(e.arg.doc)

\* C8 (as claimed): a fetched row with a new date whose consumption is empty,
\* missing or not a number is accepted without raising: data becomes the new
\* row, current_daily_usage is 0.0 and cumulative_usage keeps its value.
C8_FallbackParsing ==
    (trace # <<>> /\ NewDateUnusableConsumption(Last))
    => /\ Last.outcome = "returned"
       /\ data # <<>>
       /\ data[1].weather_date = Strip(RawCell(Last.arg.doc, "Weather Date")[1])
       /\ current_daily_usage = 0
       /\ cumulative_usage = Last.before.cumulative_usage

\* The first n calls are the refreshes of the end-to-end scenario.
Scenario(n) ==
    /\ Len(trace) = n
    /\ \A i \in 1..n : trace[i].op = "refresh"
    /\ trace[1].arg = OkResponse(DocOf(DATE_1, CONS_12_5))
    /\ n >= 2 => trace[2].arg = OkResponse(DocOf(DATE_1, CONS_12_5))
    /\ n >= 3 => trace[3].arg = OkResponse(DocOf(DATE_2, CONS_8_0))

\* C9 (as claimed): 2024-01-01 "12.5" gives 12.5 and 12.5; the same row again
\* changes nothing; 2024-01-02 "8,0" gives 8.0 and 20.5.
C9_ScenarioAsClaimed ==
    /\ Scenario(1) => current_daily_usage = 125 /\ cumulative_usage = 125
    /\ Scenario(2) => State = Last.before /\ cumulative_usage = 125
    /\ Scenario(3) => current_daily_usage = 80 /\ cumulative_usage = 205

\* C9 (amended): 2024-01-01 "12.5" gives 12.5 and 12.5; the same row again
\* changes nothing; 2024-01-02 "8,0" gives 80.0 and 92.5, the comma being
\* removed before the text is parsed.
C9_Scenario ==
    /\ Scenario(1) => current_daily_usage = 125 /\ cumulative_usage = 125
    /\ Scenario(2) => State = Last.before /\ cumulative_usage = 125
    /\ Scenario(3) => current_daily_usage = 800 /\ cumulative_usage = 925

\* The third refresh of the scenario has run.
C9_Witness ==
    /\ Scenario(3)
    /\ data # <<>>
    /\ data[1].weather_date = DATE_2
    /\ data[1].consumption = CONS_8_0

-----------------------------------------------------------------------------
(* The sensor platform's setup sequence *)

InitSetup ==
    /\ data = NewCoordinator.data
    /\ current_daily_usage = NewCoordinator.current_daily_usage
    /\ cumulative_usage = NewCoordinator.cumulative_usage
    /\ trace = <<>>
    /\ pc = "async_setup_entry"
    /\ now = [day |-> 0, hour |-> 0, minute |-> 0, second |-> 0, microsecond |-> 0]
    /\ next_time = <<>>
    /\ HostIdle

\* async_setup_entry: the first refresh is awaited; when it raises, the setup
\* ends there, otherwise the two sensors are handed to the host and the
\* fetch_now service is registered.
async_setup_entry(resp) ==
    /\ pc = "async_setup_entry"
    /\ LET r == async_request_refresh(State, resp)
       IN  /\ data' = r.st.data
           /\ current_daily_usage' = r.st.current_daily_usage
           /\ cumulative_usage' = r.st.cumulative_usage
           /\ trace' = Append(trace, Entry("refresh", resp, State, r.st, r.outcome))
           /\ pc' = IF r.outcome = "UpdateFailed" THEN "setup_failed"
                                                  ELSE "async_added_to_hass"
    /\ UNCHANGED <<now, next_time>>
    /\ UNCHANGED host

\* The host adds the cumulative sensor and hands it its last state.
AddedToHass(last_state) ==
    /\ pc = "async_added_to_hass"
    /\ LET st == async_added_to_hass(State, last_state)
       IN  /\ cumulative_usage' = st.cumulative_usage
           /\ trace' = Append(trace, Entry("restore", last_state, State, st, "returned"))
    /\ pc' = "running"
    /\ UNCHANGED <<data, current_daily_usage, now, next_time>>
    /\ UNCHANGED host

\* async_handle_fetch_now, with this one account configured.
async_handle_fetch_now(resp) ==
    /\ pc = "running"
    /\ Calls < MaxCalls
    /\ LET r == async_request_refresh(State, resp)
       IN  /\ data' = r.st.data
           /\ current_daily_usage' = r.st.current_daily_usage
           /\ cumulative_usage' = r.st.cumulative_usage
           /\ trace' = Append(trace, Entry("refresh", resp, State, r.st, r.outcome))
    /\ UNCHANGED <<pc, now, next_time>>
    /\ UNCHANGED host

NextSetup ==
    \/ \E resp \in Responses : async_setup_entry(resp)
    \/ \E last_state \in LastStates : AddedToHass(last_state)
    \/ \E resp \in Responses : async_handle_fetch_now(resp)

SpecSetup == InitSetup /\ [][NextSetup]_vars

\* Entry i of the history is a restoration that set cumulative_usage.
RestoreApplied(i) ==
    /\ trace[i].op = "restore"
    /\ trace[i].arg # <<>>
    /\ PyFloat(trace[i].arg[1]).ok

\* C7 (as claimed): in the setup sequence the persisted value is applied once
\* and before the first refresh, so it never replaces a total that already
\* includes an accepted reading.
C7_RestoreBeforeFirstRefresh ==
    /\ Cardinality({i \in 1..Len(trace) : RestoreApplied(i)}) <= 1
    /\ \A i \in 1..Len(trace) :
          RestoreApplied(i)
          => /\ \A j \in 1..(i - 1) : trace[j].op # "refresh"
             /\ trace[i].before.data = <<>>

-----------------------------------------------------------------------------
(* The daily schedule *)

\* Local wall-clock times: the day counts calendar days.
SampleTimes ==
    [day : 0..MaxDay, hour : {0, 3, 4, 5, 23}, minute : {0, 59},
     second : {0, 59}, microsecond : {0, 1, 999999}]

\* datetime's order on two times of the same time zone.
TimeLess(a, b) ==
    \/ a.day < b.day
    \/ a.day = b.day /\ a.hour < b.hour
    \/ a.day = b.day /\ a.hour = b.hour /\ a.minute < b.minute
    \/ a.day = b.day /\ a.hour = b.hour /\ a.minute = b.minute
       /\ a.second < b.second
    \/ a.day = b.day /\ a.hour = b.hour /\ a.minute = b.minute
       /\ a.second = b.second /\ a.microsecond < b.microsecond

\* now >= target
TimeGeq(a, b) == ~TimeLess(a, b)

\* Faulty variant of _get_next_4am: "now > target" in place of "now >= target".
NextFourAmStrict(t) ==
    LET target == [t EXCEPT !.hour = 4, !.minute = 0, !.second = 0, !.microsecond = 0]
    IN  IF TimeLess(target, t) THEN [target EXCEPT !.day = @ + 1] ELSE target

\* _get_next_4am, with t the value of dt_util.now().
_get_next_4am(t) ==
    LET target == [t EXCEPT !.hour = 4, !.minute = 0, !.second = 0, !.microsecond = 0]
    IN  IF TimeGeq(t, target) THEN [target EXCEPT !.day = @ + 1] ELSE target

InitClock ==
    /\ data = NewCoordinator.data
    /\ current_daily_usage = NewCoordinator.current_daily_usage
    /\ cumulative_usage = NewCoordinator.cumulative_usage
    /\ trace = <<>>
    /\ pc = "clock"
    /\ now \in SampleTimes
    /\ next_time = <<>>
    /\ HostIdle

\* The next firing time is computed at the current time.
ComputeNext ==
    /\ next_time = <<>>
    /\ next_time' = <<_get_next_4am(now)>>
    /\ UNCHANGED <<data, current_daily_usage, cumulative_usage, trace, pc, now>>
    /\ UNCHANGED host

\* Time passes.
Advance ==
    /\ \E t \in SampleTimes : TimeLess(now, t) /\ now' = t
    /\ next_time' = <<>>
    /\ UNCHANGED <<data, current_daily_usage, cumulative_usage, trace, pc>>
    /\ UNCHANGED host

NextClock == ComputeNext \/ Advance

SpecClock == InitClock /\ [][NextClock]_vars

\* C10: the computed firing time is at 04:00:00 local time, strictly later
\* than now, and the nearest such time: today when now is before 04:00, the
\* following day otherwise, 04:00:00 exactly included.
C10_Next4am ==
    next_time # <<>>
    => LET t == next_time[1]
       IN  /\ t.hour = 4 /\ t.minute = 0 /\ t.second = 0 /\ t.microsecond = 0
           /\ TimeLess(now, t)
           /\ t.day = IF now.hour < 4 THEN now.day ELSE now.day + 1

\* The firing time was computed at 04:00:00 exactly.
C10_Witness ==
    /\ next_time # <<>>
    /\ now.hour = 4 /\ now.minute = 0 /\ now.second = 0 /\ now.microsecond = 0
    /\ next_time[1].day = now.day + 1

-----------------------------------------------------------------------------
(* Further properties of refresh *)

\* Entry e is a refresh whose login answer lacks the signed-in markers.
MarkerMissing(e) ==
    /\ e.op = "refresh"
    /\ FailedRequest(e) \notin {"connect", "get", "post"}
    /\ ~e.arg.signed_in

\* C13 (as claimed): when the login answer lacks the signed-in markers the
\* refresh is treated as failed and data, current_daily_usage and
\* cumulative_usage are unchanged, whatever the download returns.
C13_NoMarkerFails ==
    (trace # <<>> /\ MarkerMissing(Last))
    => /\ _fetch_data(Last.arg).warned
       /\ Last.outcome = "UpdateFailed"
       /\ State = Last.before

\* C13 (amended): when the login answer lacks the signed-in markers a warning
\* is logged and the refresh goes on to the download: it ends, and leaves the
\* coordinator, exactly as the same answers with the markers present would.
C13_NoMarkerWarnsOnly ==
    (trace # <<>> /\ MarkerMissing(Last))
    => /\ _fetch_data(Last.arg).warned
       /\ [st |-> State, outcome |-> Last.outcome]
            = async_request_refresh(Last.before, [Last.arg EXCEPT !.signed_in = TRUE])
       /\ (FailedRequest(Last) = "csv")
            => (Last.outcome = "UpdateFailed" /\ State = Last.before)

\* Without the markers, a new row was accepted after an earlier reading, and
\* a failing download without the markers was seen before.
C13_Witness ==
    /\ Len(trace) = 3
    /\ FetchedRow(trace[1])
    /\ MarkerMissing(trace[2]) /\ FailedRequest(trace[2]) = "csv"
    /\ MarkerMissing(Last) /\ FailedRequest(Last) = ""
    /\ Last.outcome = "returned"
    /\ cumulative_usage = Last.before.cumulative_usage + 800

\* C15 (as claimed): a document whose column labels differ from the usual
\* ones only in capitalisation drives the refresh to the same result as the
\* same rows under the usual labels.
C15_HeaderCaseTolerant ==
    (trace # <<>> /\ Last.op = "refresh" /\ Last.arg.doc.header = HeaderLower)
    => [st |-> State, outcome |-> Last.outcome]
         = async_request_refresh(Last.before, [Last.arg EXCEPT !.doc.header = Header])

\* The date of refresh entry e's row is stored once e is over.
DateStoredBy(e) ==
    /\ FetchedRow(e)
    /\ e.after.data # <<>>
    /\ e.after.data[1].weather_date = RowOf(e).weather_date

\* C17 (as claimed): a date whose reading was accepted is never added a
\* second time, also when a reading with another date was accepted in
\* between (the dates considered here are not empty).
C17_OncePerDate ==
    \A i \in 1..Len(trace) : \A j \in (i + 1)..Len(trace) :
        (/\ DateStoredBy(trace[i])
         /\ FetchedRow(trace[j])
         /\ RowOf(trace[j]).weather_date = RowOf(trace[i]).weather_date
         /\ RowOf(trace[j]).weather_date # EMPTY)
        => trace[j].after.cumulative_usage = trace[j].before.cumulative_usage

\* C20: whenever a last accepted reading exists, current_daily_usage is its
\* coerced consumption, 0.0 when that is empty or unparseable.
C20_DailyMirrorsReading ==
    data # <<>>
    => /\ current_daily_usage = UsageFloat(data[1])
       /\ data[1].consumption \in {EMPTY, CONS_ABC} => current_daily_usage = 0
       /\ data[1].consumption = CONS_12_5 => current_daily_usage = 125

\* After a reading of 12.5 and a restoration, an unparseable reading is the
\* last accepted one.
C20_Witness ==
    /\ Len(trace) = 3
    /\ FetchedRow(trace[1]) /\ trace[1].after.current_daily_usage = 125
    /\ trace[2].op = "restore" /\ trace[2].after # trace[2].before
    /\ FetchedRow(trace[3])
    /\ data # <<>> /\ data[1].consumption = CONS_ABC
    /\ current_daily_usage = 0

-----------------------------------------------------------------------------
(* Restart *)

\* C18: a new coordinator goes through the setup sequence, its first refresh
\* fetching the row that was the last accepted before the restart, and the
\* persisted value P is then restored: cumulative_usage is P at the end of
\* the sequence, the row's consumption is not in it a second time.
C18_RestartIdempotent ==
    (/\ pc = "running"
     /\ FetchedRow(trace[1])
     /\ RestoreApplied(2))
    => /\ trace[2].after.cumulative_usage = PyFloat(trace[2].arg[1]).val
       /\ trace[2].arg[1] = STATE_42_5 => trace[2].after.cumulative_usage = 425
       /\ Len(trace) = 2 => cumulative_usage = trace[2].after.cumulative_usage

\* The setup refresh accepted the row with consumption 12.5 into the new
\* coordinator and the restoration of 42.5 followed.
C18_Witness ==
    /\ pc = "running"
    /\ Len(trace) = 2
    /\ FetchedRow(trace[1])
    /\ trace[1].before = NewCoordinator
    /\ trace[1].after.cumulative_usage = 125
    /\ RestoreApplied(2)
    /\ cumulative_usage = 425

-----------------------------------------------------------------------------
(* The fetch_now service with several accounts *)

\* What the portal answers to the accounts: a row, no row, no connection.
AccountResponses ==
    { OkResponse(DocOf(DATE_1, CONS_12_5)),
      OkResponse(DocEmpty),
      [OkResponse(DocEmpty) EXCEPT !.connected = FALSE] }

\* The loop of async_handle_fetch_now from account i on: each coordinator's
\* refresh is awaited in turn, and an exception leaves the loop and the
\* handler.  resps[i] is what the portal answers to account i.
RECURSIVE FetchNowLoop(_, _, _)
FetchNowLoop(accts, resps, i) ==
    IF i > Len(accts)
    THEN [accounts |-> accts, called |-> 1..Len(accts), outcome |-> "returned"]
    ELSE LET r == async_request_refresh(accts[i], resps[i])
         IN  IF r.outcome = "UpdateFailed"
             THEN [accounts |-> accts, called |-> 1..i, outcome |-> "UpdateFailed"]
             ELSE FetchNowLoop([accts EXCEPT ![i] = r.st], resps, i + 1)

\* One to MaxAccounts entries are set up, each with a new coordinator.
InitAccounts ==
    /\ data = NewCoordinator.data
    /\ current_daily_usage = NewCoordinator.current_daily_usage
    /\ cumulative_usage = NewCoordinator.cumulative_usage
    /\ trace = <<>>
    /\ pc = "accounts"
    /\ now = [day |-> 0, hour |-> 0, minute |-> 0, second |-> 0, microsecond |-> 0]
    /\ next_time = <<>>
    /\ _unsub_timer = <<>>
    /\ armed = {}
    /\ handles = 0
    /\ inflight = <<>>
    /\ accounts \in { [i \in 1..n |-> NewCoordinator] : n \in 1..MaxAccounts }
    /\ refreshed = {}

\* One invocation of the fetch_now service.
FetchNowAllAccounts(resps) ==
    /\ pc = "accounts"
    /\ Calls < MaxServiceCalls
    /\ LET r == FetchNowLoop(accounts, resps, 1)
       IN  /\ accounts' = r.accounts
           /\ refreshed' = r.called
           /\ trace' = Append(trace,
                  Entry("fetch_now", resps, accounts, r.accounts, r.outcome))
    /\ UNCHANGED <<data, current_daily_usage, cumulative_usage, pc, now, next_time>>
    /\ UNCHANGED <<_unsub_timer, armed, handles, inflight>>

NextAccounts ==
    \E resps \in [1..Len(accounts) -> AccountResponses] : FetchNowAllAccounts(resps)

SpecAccounts == InitAccounts /\ [][NextAccounts]_vars

\* C14 (as claimed): one invocation of fetch_now calls the refresh of every
\* configured account's coordinator, whatever the outcome of each refresh.
C14_FetchNowCoversAll ==
    (pc = "accounts" /\ trace # <<>>) => refreshed = 1..Len(accounts)

-----------------------------------------------------------------------------
(* The daily timer and refreshes suspended on their fetch *)

\* What the portal answers while the timer runs: a row, a row whose date is
\* empty, no connection.
ScheduleResponses ==
    { OkResponse(DocOf(DATE_1, CONS_12_5)),
      OkResponse(DocOf(EMPTY, CONS_3_0)),
      [OkResponse(DocEmpty) EXCEPT !.connected = FALSE] }

\* The handle of async_track_point_in_time: the callback fires once, at t.
PointInTime(n, t) == [kind |-> "point_in_time", id |-> n, at |-> t]

\* The armed firings of _scheduled_update_callback.
DailyTimers == { h \in armed : h.kind = "point_in_time" }

\* Faulty variant of schedule_daily_update: the stored handle is not called
\* before the new firing is armed.
ScheduleWithoutCancel(t, timer, arm, n) ==
    LET next_4am == _get_next_4am(t)
        h == PointInTime(n + 1, next_4am)
    IN  [_unsub_timer |-> <<h>>, armed |-> arm \cup {h}, handles |-> n + 1,
         next_time |-> <<next_4am>>]

\* schedule_daily_update at time t, with the stored handle, the armed
\* callbacks and the number of handles issued: the stored handle is called,
\* which cancels its firing when that is still armed, and a firing at the
\* next 04:00 is armed and its handle stored.
schedule_daily_update(t, timer, arm, n) ==
    LET kept == IF timer # <<>> THEN arm \ {timer[1]} ELSE arm
        next_4am == _get_next_4am(t)
        h == PointInTime(n + 1, next_4am)
    IN  [_unsub_timer |-> <<h>>, armed |-> kept \cup {h}, handles |-> n + 1,
         next_time |-> <<next_4am>>]

\* Number of refreshes begun so far.
Starts == Cardinality({ i \in 1..Len(trace) : trace[i].op = "begin" })

\* Sequence s without its element i.
RemoveAt(s, i) == [j \in 1..(Len(s) - 1) |-> IF j < i THEN s[j] ELSE s[j + 1]]

\* A coordinator of a loaded entry, its timer not yet scheduled.
InitSchedule ==
    /\ data = NewCoordinator.data
    /\ current_daily_usage = NewCoordinator.current_daily_usage
    /\ cumulative_usage = NewCoordinator.cumulative_usage
    /\ trace = <<>>
    /\ pc = "loaded"
    /\ now = [day |-> 0, hour |-> 0, minute |-> 0, second |-> 0, microsecond |-> 0]
    /\ next_time = <<>>
    /\ HostIdle

\* schedule_daily_update is called on the coordinator of a loaded entry.
ScheduleDailyUpdate ==
    /\ pc = "loaded"
    /\ handles < MaxHandles
    /\ LET s == schedule_daily_update(now, _unsub_timer, armed, handles)
       IN  /\ _unsub_timer' = s._unsub_timer
           /\ armed' = s.armed
           /\ handles' = s.handles
           /\ next_time' = s.next_time
    /\ UNCHANGED <<data, current_daily_usage, cumulative_usage, trace, pc, now>>
    /\ UNCHANGED <<inflight, accounts, refreshed>>

\* The clock reaches the time of an armed firing: the host disarms it and
\* starts _scheduled_update_callback, which runs up to the await of the fetch.
TimerFires(h, resp) ==
    /\ pc = "loaded"
    /\ h \in DailyTimers
    /\ Starts < MaxStarts
    /\ handles < MaxHandles
    /\ armed' = armed \ {h}
    /\ now' = h.at
    /\ inflight' = Append(inflight, [caller |-> "timer", resp |-> resp])
    /\ trace' = Append(trace, Entry("begin", resp, State, State, "timer"))
    /\ UNCHANGED <<data, current_daily_usage, cumulative_usage, pc, next_time>>
    /\ UNCHANGED <<_unsub_timer, handles, accounts, refreshed>>

\* The fetch_now service is called: the handler runs up to the await of the
\* coordinator's fetch.
FetchNowBegins(resp) ==
    /\ pc = "loaded"
    /\ Starts < MaxStarts
    /\ inflight' = Append(inflight, [caller |-> "fetch_now", resp |-> resp])
    /\ trace' = Append(trace, Entry("begin", resp, State, State, "fetch_now"))
    /\ UNCHANGED <<data, current_daily_usage, cumulative_usage, pc, now, next_time>>
    /\ UNCHANGED <<_unsub_timer, armed, handles, accounts, refreshed>>

\* The fetch of suspended call i returns and the rest of
\* async_request_refresh runs; _scheduled_update_callback then schedules the
\* next firing, unless the refresh raised.
RefreshCompletes(i) ==
    /\ pc = "loaded"
    /\ i \in 1..Len(inflight)
    /\ LET r == async_request_refresh(State, inflight[i].resp)
           s == schedule_daily_update(now, _unsub_timer, armed, handles)
           again == inflight[i].caller = "timer" /\ r.outcome # "UpdateFailed"
       IN  /\ data' = r.st.data
           /\ current_daily_usage' = r.st.current_daily_usage
           /\ cumulative_usage' = r.st.cumulative_usage
           /\ trace' = Append(trace,
                  Entry("refresh", inflight[i].resp, State, r.st, r.outcome))
           /\ _unsub_timer' = IF again THEN s._unsub_timer ELSE _unsub_timer
           /\ armed' = IF again THEN s.armed ELSE armed
           /\ handles' = IF again THEN s.handles ELSE handles
           /\ next_time' = IF again THEN s.next_time ELSE next_time
    /\ inflight' = RemoveAt(inflight, i)
    /\ UNCHANGED <<pc, now, accounts, refreshed>>

NextSchedule ==
    \/ ScheduleDailyUpdate
    \/ \E h \in armed : \E resp \in ScheduleResponses : TimerFires(h, resp)
    \/ \E resp \in ScheduleResponses : FetchNowBegins(resp)
    \/ \E i \in 1..Len(inflight) : RefreshCompletes(i)

SpecSchedule == InitSchedule /\ [][NextSchedule]_vars

\* C11: at most one firing of the coordinator's daily callback is armed, and
\* an armed one is the one whose handle the coordinator stores: each
\* scheduling has cancelled the firing armed before it.
C11_SinglePendingTimer ==
    /\ Cardinality(DailyTimers) <= 1
    /\ DailyTimers # {} => _unsub_timer = <<CHOOSE h \in DailyTimers : TRUE>>

\* The timer was scheduled, fired and rescheduled by the callback, then
\* scheduled again while the callback's firing was still armed.
C11_Witness ==
    /\ pc = "loaded"
    /\ handles = 3
    /\ Cardinality(DailyTimers) = 1
    /\ now.hour = 4
    /\ Len(trace) = 2
    /\ trace[1].outcome = "timer"
    /\ trace[2].outcome = "returned"
    /\ inflight = <<>>

\* C12 (as claimed): once the daily timer has been scheduled, whenever no
\* scheduled callback is suspended a next firing is armed, also after a
\* firing whose refresh raised UpdateFailed.
C12_RearmedAfterFiring ==
    (/\ pc = "loaded"
     /\ _unsub_timer # <<>>
     /\ \A i \in 1..Len(inflight) : inflight[i].caller # "timer")
    => DailyTimers # {}

\* C16 (as claimed): two refreshes suspended on their fetch at the same time,
\* both fetching the same row whose date is not the stored one, add the row's
\* consumption once, whichever completes first.
C16_OverlapAddsOnce ==
    LET n == Len(trace)
    IN  (/\ pc = "loaded"
         /\ n >= 4
         /\ trace[n - 3].op = "begin" /\ trace[n - 2].op = "begin"
         /\ FetchedRow(trace[n - 1]) /\ FetchedRow(trace[n])
         /\ trace[n - 3].arg = trace[n].arg /\ trace[n - 2].arg = trace[n].arg
         /\ trace[n - 1].arg = trace[n].arg
         /\ ~SameDate(trace[n - 1].before, RowOf(trace[n])))
        => cumulative_usage
             = trace[n - 1].before.cumulative_usage + UsageFloat(RowOf(trace[n]))

-----------------------------------------------------------------------------
(* Setup and unload of the config entry *)

\* The handle of async_track_time_change: the listener fires every day at
\* the time of day t (the day of t is immaterial).
TimeChange(n, t) == [kind |-> "time_change", id |-> n, at |-> t]

\* A time of day.
TimeOfDay(h) == [day |-> 0, hour |-> h, minute |-> 0, second |-> 0, microsecond |-> 0]

\* The armed scheduled_update listeners.
Listeners == { h \in armed : h.kind = "time_change" }

\* The entry is not set up yet.
InitLifecycle ==
    /\ data = NewCoordinator.data
    /\ current_daily_usage = NewCoordinator.current_daily_usage
    /\ cumulative_usage = NewCoordinator.cumulative_usage
    /\ trace = <<>>
    /\ pc = "unloaded"
    /\ now = [day |-> 0, hour |-> 0, minute |-> 0, second |-> 0, microsecond |-> 0]
    /\ next_time = <<>>
    /\ HostIdle

\* async_setup_entry of the component: after the setup is forwarded to the
\* sensor platform, two scheduled_update listeners are armed, at 01:00 and
\* at 13:00, and their handles are dropped.
ComponentSetupEntry ==
    /\ pc = "unloaded"
    /\ Cardinality(Listeners) + 2 <= MaxListeners
    /\ armed' = armed \cup { TimeChange(handles + 1, TimeOfDay(1)),
                             TimeChange(handles + 2, TimeOfDay(13)) }
    /\ handles' = handles + 2
    /\ pc' = "loaded"
    /\ UNCHANGED <<data, current_daily_usage, cumulative_usage, trace, now, next_time>>
    /\ UNCHANGED <<_unsub_timer, inflight, accounts, refreshed>>

\* async_unload_entry: the sensor platform is unloaded; no handle is called.
async_unload_entry ==
    /\ pc = "loaded"
    /\ pc' = "unloaded"
    /\ UNCHANGED <<data, current_daily_usage, cumulative_usage, trace, now, next_time>>
    /\ UNCHANGED host

\* An armed listener fires: scheduled_update goes through SENSORS, which is
\* empty, and the listener stays armed.
ScheduledUpdate(h) ==
    /\ h \in Listeners
    /\ Calls < MaxCalls
    /\ trace' = Append(trace, Entry("scheduled_update", h, State, State, pc))
    /\ UNCHANGED <<data, current_daily_usage, cumulative_usage, pc, now, next_time>>
    /\ UNCHANGED host

NextLifecycle ==
    \/ ComponentSetupEntry
    \/ async_unload_entry
    \/ ScheduleDailyUpdate
    \/ \E h \in armed : ScheduledUpdate(h)

SpecLifecycle == InitLifecycle /\ [][NextLifecycle]_vars

\* C19 (as claimed): once the entry is unloaded none of its scheduled
\* callbacks is armed, and setup/unload cycles leave at most the callbacks of
\* one setup armed: two listeners and one daily timer.
C19_UnloadCancels ==
    /\ pc = "unloaded" => armed = {}
    /\ Cardinality(armed) <= 3

=============================================================================
